---- MODULE Spec2Model ----
(***************************************************************************)
(* The client-side real-time notification service of the issue tracker:    *)
(* WebSocketNotificationService (connect / reconnect / heartbeat /         *)
(* message dispatch / listener registry) together with the part of the     *)
(* browser runtime it runs on (WebSocket objects, setTimeout and           *)
(* setInterval timers).                                                    *)
(*                                                                         *)
(* The service and the runtime are one record, St; every method and every *)
(* event handler of the service is an operator from such a record to the   *)
(* record after the call.  An action of the state machine is one task of   *)
(* the browser's event loop: a call made by the UI, a socket event, or a   *)
(* timer firing.                                                           *)
(***************************************************************************)
EXTENDS Integers, Sequences, FiniteSets, Bags, TLC

VARIABLES
    websocket,          \* this.websocket: NULL or the index of a socket in sockets
    reconnectAttempts,  \* this.reconnectAttempts
    isConnecting,       \* this.isConnecting
    heartbeatInterval,  \* this.heartbeatInterval: NULL or the id of an interval timer
    listeners,          \* this.listeners: event name -> sequence of callbacks
    sockets,            \* the WebSocket objects not yet garbage, in creation order
    timers,             \* pending setTimeout reconnect timers: a bag of their tokens
    intervals,          \* ids of the setInterval timers that are still active
    sent,               \* frames the client sent during the last task
    calls,              \* listener invocations made during the last task, in order
    dispatched,         \* notifyListeners calls made during the last task, in order
    errors,             \* console.error entries written during the last task
    scheduled,          \* delays of the reconnects scheduled during the last task
    thrown,             \* an exception escaped the handler of the last task
    schedSinceOpen,     \* history: reconnects scheduled since the last open event
    unansweredPings,    \* history: pings of the current heartbeat timer with no pong since
    uiStopped,          \* history: the last call the UI made was disconnect()
    lastOp,             \* history: the task that produced this state
    registry,           \* server, ConnectionRegistry: user -> sequence of handles
    conns,              \* server: the connection task of each handle
    lock,               \* server: NULL or the handle whose task holds the registry lock
    store,              \* server: the durable notification store, target user per event
    net,                \* history: user -> handles registered and not unregistered since
    lastPublish,        \* server: the outcome of the last task when it was a publish
    issues,             \* Dashboard: the issues state, a sequence of issues
    stats,              \* Dashboard: the stats state
    boardOp,            \* history: the last task of the Dashboard, and whether a fetch was answered
    notifications,      \* NotificationService: this.notifications
    unreadCount,        \* NotificationService: this.unreadCount
    inbox,              \* server: notification id -> "absent", "unread" or "read"
    inboxOp             \* history: the last task of the NotificationService

clientVars == << websocket, reconnectAttempts, isConnecting, heartbeatInterval, listeners,
                 sockets, timers, intervals, sent, calls, dispatched, errors, scheduled,
                 thrown, schedSinceOpen, unansweredPings, uiStopped, lastOp >>

serverVars == << registry, conns, lock, store, net, lastPublish >>

boardVars == << issues, stats, boardOp >>

inboxVars == << notifications, unreadCount, inbox, inboxOp >>

vars == << clientVars, serverVars, boardVars, inboxVars >>

---------------------------------------------------------------------------
(* Program constants *)

maxReconnectAttempts == 5
reconnectDelay == 2000
NormalClosure == 1000
AbnormalClosure == 1006
GoingAway == 1001

NULL == 0

\* the heartbeat timeout in ping intervals: a pong is due within 2 x the ping
\* interval
PongTimeoutTicks == 2

(* Bounds of the model *)

\* WebSocket objects alive at one time
MaxSockets == 3
\* reconnect timers pending at one time
MaxTimers == 2
\* interval timers active at one time
MaxIntervals == 2
\* listener registrations held at one time, over all event names
MaxRegistrations == 2
\* connections the server accepts over a run
MaxConns == 3
\* events published over a run
MaxEvents == 2
\* issues the server has
MaxIssues == 3
\* notifications the server creates for the user
MaxNotifications == 3

Tokens == {"tokA"}

\* the server's users, the credentials a client can present, and connection handles
Users == {"u1", "u2"}
Credentials == {"tokU1", "tokU2", "expired"}
Handles == 1..MaxConns
NoUser == "none"
AuthError == "AuthError"

\* a connection task before the client connected
NewConn == [phase |-> "none", cred |-> "", user |-> NoUser, broken |-> FALSE, snap |-> <<>>]

\* no publish was made by the last task
NoPublish == [id |-> 0, user |-> NoUser, handles |-> <<>>, received |-> {},
              failed |-> {}, count |-> 0, raised |-> FALSE]

\* close codes a close event can carry
CloseCodes == {NormalClosure, GoingAway, AbnormalClosure}

\* names listeners are registered under
EventNames == {"notification", "issue_assigned", "kanban_update", "issue_updated"}

\* data.event_type values the server sends
EventTypes == {"issue_assigned", "issue_updated", "issue_status_changed",
               "kanban_update", "team_invite"}

\* callbacks the UI registers: one that returns, one that throws, and one that
\* removes itself from the event it is called for (a one-shot listener)
Callbacks == {"cbReturns", "cbThrows", "cbUnsubscribes"}

---------------------------------------------------------------------------
(* The state as one record *)

St == [ websocket |-> websocket, reconnectAttempts |-> reconnectAttempts,
        isConnecting |-> isConnecting, heartbeatInterval |-> heartbeatInterval,
        listeners |-> listeners, sockets |-> sockets, timers |-> timers,
        intervals |-> intervals, sent |-> sent, calls |-> calls,
        dispatched |-> dispatched, errors |-> errors,
        scheduled |-> scheduled, thrown |-> thrown,
        schedSinceOpen |-> schedSinceOpen, unansweredPings |-> unansweredPings ]

\* the state a task starts from: the effects of the previous task are forgotten
Begin == [St EXCEPT !.sent = <<>>, !.calls = <<>>, !.dispatched = <<>>, !.errors = <<>>,
                    !.scheduled = <<>>, !.thrown = FALSE]

\* the fields of the service object and of the runtime, without the effects
Core(r) == [ websocket |-> r.websocket, reconnectAttempts |-> r.reconnectAttempts,
             isConnecting |-> r.isConnecting, heartbeatInterval |-> r.heartbeatInterval,
             listeners |-> r.listeners, sockets |-> r.sockets, timers |-> r.timers,
             intervals |-> r.intervals ]

---------------------------------------------------------------------------
(* The browser runtime: WebSocket objects and timers *)

\* new WebSocket(url): a socket in CONNECTING state, created last
NewSocket(token) ==
    [readyState |-> "CONNECTING", token |-> token, wasOpen |-> FALSE, closeCode |-> NULL]

\* WebSocket.close(code, reason): a socket that is CONNECTING or OPEN starts to
\* close; its close event is delivered by a later task
WebSocketClose(r, s, code) ==
    IF r.sockets[s].readyState \in {"CONNECTING", "OPEN"}
    THEN [r EXCEPT !.sockets[s].readyState = "CLOSING", !.sockets[s].closeCode = code]
    ELSE r

\* WebSocket.send(data)
WebSocketSend(r, s, data) ==
    [r EXCEPT !.sent = Append(@, data)]

\* the socket object after its close event was dispatched: its handlers never
\* run again, only its readyState is read from then on
ClosedSocket == [readyState |-> "CLOSED", token |-> "", wasOpen |-> FALSE, closeCode |-> NULL]

\* garbage collection: a closed socket the service no longer refers to is
\* dropped, and the sockets that stay keep their order
RECURSIVE KeepFrom(_, _, _)
KeepFrom(socks, ws, i) ==
    IF i > Len(socks) THEN <<>>
    ELSE IF socks[i].readyState # "CLOSED" \/ i = ws
    THEN <<socks[i]>> \o KeepFrom(socks, ws, i + 1)
    ELSE KeepFrom(socks, ws, i + 1)

Collect(r) ==
    [r EXCEPT !.sockets = KeepFrom(r.sockets, r.websocket, 1),
              !.websocket = IF r.websocket = NULL THEN NULL
                            ELSE Len(KeepFrom(SubSeq(r.sockets, 1, r.websocket),
                                              r.websocket, 1))]

\* setInterval returns an id no active timer has
NewIntervalId(r) ==
    CHOOSE i \in 1..(Cardinality(r.intervals) + 1) : i \notin r.intervals

\* the close codes the close event of socket s can carry: a socket that never
\* opened fails with 1006; close(code) on an open socket ends with that code
\* when the closing handshake completes and with 1006 when it does not
ClosableWith(s) ==
    CASE sockets[s].readyState = "CONNECTING" -> {AbnormalClosure}
      [] sockets[s].readyState = "OPEN" -> CloseCodes
      [] sockets[s].readyState = "CLOSING" ->
            IF sockets[s].wasOpen THEN {sockets[s].closeCode, AbnormalClosure}
            ELSE {AbnormalClosure}
      [] OTHER -> {}

---------------------------------------------------------------------------
(* ListenerBus *)

\* the value of a call that ends without a return statement
Undefined == "undefined"

addEventListener(r, event, callback) ==
    [r EXCEPT !.listeners[event] = Append(@, callback)]

\* what addEventListener(event, callback) returns to its caller: the method
\* ends after the push, with no return statement
addEventListenerReturns(r, event, callback) == Undefined

\* the caller invokes the value addEventListener returned as a function:
\* calling undefined throws a TypeError
InvokeReturned(r, returned) ==
    IF returned = Undefined THEN [r EXCEPT !.thrown = TRUE] ELSE r

\* callbacks.indexOf(callback): the first index holding it, 0 when absent
IndexOf(callbacks, callback) ==
    IF \E i \in 1..Len(callbacks) : callbacks[i] = callback
    THEN CHOOSE i \in 1..Len(callbacks) :
            /\ callbacks[i] = callback
            /\ \A j \in 1..(i - 1) : callbacks[j] # callback
    ELSE 0

\* callbacks.splice(index, 1)
Splice(callbacks, index) ==
    [i \in 1..(Len(callbacks) - 1) |->
        IF i < index THEN callbacks[i] ELSE callbacks[i + 1]]

\* removeEventListener that empties the event's list when it finds the callback
removeEventListenerClearsEvent(r, event, callback) ==
    LET index == IndexOf(r.listeners[event], callback) IN
    IF index > 0
    THEN [r EXCEPT !.listeners[event] = <<>>]
    ELSE r

removeEventListener(r, event, callback) ==
    LET index == IndexOf(r.listeners[event], callback) IN
    IF index > 0
    THEN [r EXCEPT !.listeners[event] = Splice(@, index)]
    ELSE r

\* the body of a registered callback, called by notifyListeners for `event`
InvokeCallback(r, event, callback) ==
    CASE callback = "cbThrows" -> [r EXCEPT !.thrown = TRUE]
      [] callback = "cbUnsubscribes" -> removeEventListener(r, event, callback)
      [] OTHER -> r

\* try { callback(data) } catch (error) { console.error(...) }
CallListener(r, event, callback, data) ==
    LET called == [r EXCEPT !.calls =
                      Append(@, [event |-> event, callback |-> callback, data |-> data])]
        after == InvokeCallback(called, event, callback)
    IN IF after.thrown
       THEN [after EXCEPT !.thrown = FALSE, !.errors = Append(@, "listener")]
       ELSE after

\* Array.prototype.forEach over the live array: indexes k..len are visited, len
\* is the length when the loop started, an index the array no longer has is
\* skipped, and an exception leaving the loop body ends the loop
RECURSIVE ForEachListener(_, _, _, _, _)
ForEachListener(r, event, data, k, len) ==
    IF k > len \/ r.thrown THEN r
    ELSE IF k > Len(r.listeners[event]) THEN ForEachListener(r, event, data, k + 1, len)
    ELSE ForEachListener(CallListener(r, event, r.listeners[event][k], data),
                         event, data, k + 1, len)

notifyListeners(r, event, data) ==
    ForEachListener([r EXCEPT !.dispatched = Append(@, [event |-> event, data |-> data])],
                    event, data, 1, Len(r.listeners[event]))

---------------------------------------------------------------------------
(* WebSocketNotificationService: heartbeat *)

startHeartbeat(r) ==
    LET id == NewIntervalId(r) IN
    [r EXCEPT !.heartbeatInterval = id, !.intervals = @ \cup {id}]

stopHeartbeat(r) ==
    IF r.heartbeatInterval # NULL
    THEN [r EXCEPT !.intervals = @ \ {r.heartbeatInterval}, !.heartbeatInterval = NULL]
    ELSE r

\* the setInterval callback of startHeartbeat
heartbeatTick(r) ==
    IF r.websocket # NULL /\ r.sockets[r.websocket].readyState = "OPEN"
    THEN WebSocketSend(r, r.websocket, "ping")
    ELSE r

---------------------------------------------------------------------------
(* WebSocketNotificationService: connection *)

connect(r, token) ==
    IF r.isConnecting
       \/ (r.websocket # NULL /\ r.sockets[r.websocket].readyState = "OPEN")
    THEN r
    ELSE [r EXCEPT !.isConnecting = TRUE,
                   !.sockets = Append(@, NewSocket(token)),
                   !.websocket = Len(r.sockets) + 1]

\* scheduleReconnect with the delay computed before the counter is incremented
scheduleReconnectStaleDelay(r, token) ==
    LET attempts == r.reconnectAttempts + 1
        delay == reconnectDelay * r.reconnectAttempts
    IN [r EXCEPT !.reconnectAttempts = attempts,
                 !.timers = @ (+) SetToBag({token}),
                 !.scheduled = Append(@, delay),
                 !.schedSinceOpen = @ + 1]

scheduleReconnect(r, token) ==
    LET attempts == r.reconnectAttempts + 1
        delay == reconnectDelay * attempts
    IN [r EXCEPT !.reconnectAttempts = attempts,
                 !.timers = @ (+) SetToBag({token}),
                 !.scheduled = Append(@, delay),
                 !.schedSinceOpen = @ + 1]

\* websocket.onopen of socket s
onopen(r, s) ==
    startHeartbeat([r EXCEPT !.isConnecting = FALSE,
                             !.reconnectAttempts = 0,
                             !.schedSinceOpen = 0])

\* onclose that does not look at the attempt counter
oncloseNoBudget(r, s, code) ==
    LET stopped == stopHeartbeat([r EXCEPT !.isConnecting = FALSE]) IN
    IF code # NormalClosure
    THEN scheduleReconnect(stopped, r.sockets[s].token)
    ELSE stopped

\* onclose that does not look at the close code
oncloseIgnoresCode(r, s, code) ==
    LET stopped == stopHeartbeat([r EXCEPT !.isConnecting = FALSE]) IN
    IF stopped.reconnectAttempts < maxReconnectAttempts
    THEN scheduleReconnect(stopped, r.sockets[s].token)
    ELSE stopped

\* onclose with the retry budget compared by <= instead of <
oncloseOffByOne(r, s, code) ==
    LET stopped == stopHeartbeat([r EXCEPT !.isConnecting = FALSE]) IN
    IF code # NormalClosure /\ stopped.reconnectAttempts <= maxReconnectAttempts
    THEN scheduleReconnect(stopped, r.sockets[s].token)
    ELSE stopped

\* websocket.onclose of socket s, created by connect(token)
onclose(r, s, code) ==
    LET stopped == stopHeartbeat([r EXCEPT !.isConnecting = FALSE]) IN
    IF code # NormalClosure /\ stopped.reconnectAttempts < maxReconnectAttempts
    THEN scheduleReconnect(stopped, r.sockets[s].token)
    ELSE stopped

\* websocket.onerror of socket s
onerror(r, s) ==
    [r EXCEPT !.errors = Append(@, "websocket"), !.isConnecting = FALSE]

\* disconnect that also drops the listeners
disconnectClearsListeners(r) ==
    LET stopped == stopHeartbeat(r)
        closed == IF stopped.websocket # NULL
                  THEN [WebSocketClose(stopped, stopped.websocket, NormalClosure)
                           EXCEPT !.websocket = NULL]
                  ELSE stopped
    IN [closed EXCEPT !.reconnectAttempts = maxReconnectAttempts,
                      !.listeners = [e \in EventNames |-> <<>>]]

\* disconnect without this.websocket = null
disconnectKeepsSocket(r) ==
    LET stopped == stopHeartbeat(r)
        closed == IF stopped.websocket # NULL
                  THEN WebSocketClose(stopped, stopped.websocket, NormalClosure)
                  ELSE stopped
    IN [closed EXCEPT !.reconnectAttempts = maxReconnectAttempts]

disconnect(r) ==
    LET stopped == stopHeartbeat(r)
        closed == IF stopped.websocket # NULL
                  THEN [WebSocketClose(stopped, stopped.websocket, NormalClosure)
                            EXCEPT !.websocket = NULL]
                  ELSE stopped
    IN [closed EXCEPT !.reconnectAttempts = maxReconnectAttempts]

---------------------------------------------------------------------------
(* WebSocketNotificationService: received frames *)

\* data of a message: undefined, or an object with event_type and maybe an issue
NoData == [defined |-> FALSE, event_type |-> "", hasIssue |-> FALSE]
Data(eventType, hasIssue) ==
    [defined |-> TRUE, event_type |-> eventType, hasIssue |-> hasIssue]

\* what a frame parses to: null, or an object with type and data
Message(type, data) == [isNull |-> FALSE, type |-> type, data |-> data]
NullMessage == [isNull |-> TRUE, type |-> "", data |-> NoData]

\* a frame is its text; json says whether JSON.parse accepts the text and
\* value is what it then returns
TextFrame(text) == [text |-> text, json |-> FALSE, value |-> NullMessage]
JsonFrame(value) == [text |-> "", json |-> TRUE, value |-> value]

PongFrame == TextFrame("pong")
PingFrame == TextFrame("ping")
MalformedFrame == TextFrame("{not json")
UnknownTypeFrame == JsonFrame(Message("presence", Data("issue_assigned", TRUE)))
NotificationFrames ==
    {JsonFrame(Message("notification", Data(e, TRUE))) : e \in EventTypes}
    \cup {JsonFrame(Message("notification", Data("issue_assigned", FALSE))),
          JsonFrame(Message("notification", NoData))}

Frames == {PongFrame, PingFrame, MalformedFrame, JsonFrame(NullMessage), UnknownTypeFrame}
          \cup NotificationFrames

\* granted: Notification.permission === 'granted'.  The browser notification and
\* the sound are not part of the state; building the notification's tag reads
\* data.issue.id
showAssignmentNotification(r, data, granted) ==
    IF granted /\ ~data.hasIssue THEN [r EXCEPT !.thrown = TRUE] ELSE r

\* handleMessage that hands the message, not its data, to the kanban_update
\* listeners
handleMessagePassesMessage(r, message, granted) ==
    IF message.isNull THEN [r EXCEPT !.thrown = TRUE]
    ELSE IF message.type = "notification"
    THEN LET data == message.data
             generic == notifyListeners(r, "notification", data)
         IN IF ~data.defined THEN [generic EXCEPT !.thrown = TRUE]
            ELSE CASE data.event_type = "issue_assigned" ->
                        showAssignmentNotification(
                            notifyListeners(generic, "issue_assigned", data), data, granted)
                   [] data.event_type = "kanban_update" ->
                        notifyListeners(generic, "kanban_update", NoData)
                   [] OTHER -> generic
    ELSE r

\* handleMessage without the kanban_update case
handleMessageNoKanban(r, message, granted) ==
    IF message.isNull THEN [r EXCEPT !.thrown = TRUE]
    ELSE IF message.type = "notification"
    THEN LET data == message.data
             generic == notifyListeners(r, "notification", data)
         IN IF ~data.defined THEN [generic EXCEPT !.thrown = TRUE]
            ELSE CASE data.event_type = "issue_assigned" ->
                        showAssignmentNotification(
                            notifyListeners(generic, "issue_assigned", data), data, granted)
                   [] OTHER -> generic
    ELSE r

handleMessage(r, message, granted) ==
    IF message.isNull THEN [r EXCEPT !.thrown = TRUE]
    ELSE IF message.type = "notification"
    THEN LET data == message.data
             generic == notifyListeners(r, "notification", data)
         IN IF ~data.defined THEN [generic EXCEPT !.thrown = TRUE]
            ELSE CASE data.event_type = "issue_assigned" ->
                        showAssignmentNotification(
                            notifyListeners(generic, "issue_assigned", data), data, granted)
                   [] data.event_type = "kanban_update" ->
                        notifyListeners(generic, "kanban_update", data)
                   [] OTHER -> generic
    ELSE r

\* onmessage without its try/catch
onmessageNoCatch(r, s, frame, granted) ==
    IF ~frame.json /\ frame.text = "pong" THEN r
    ELSE IF frame.json
         THEN handleMessage(r, frame.value, granted)
         ELSE [r EXCEPT !.thrown = TRUE]

\* websocket.onmessage of socket s
onmessage(r, s, frame, granted) ==
    IF ~frame.json /\ frame.text = "pong" THEN r
    ELSE LET handled == IF frame.json
                        THEN handleMessage(r, frame.value, granted)
                        ELSE [r EXCEPT !.thrown = TRUE]
         IN IF handled.thrown
            THEN [handled EXCEPT !.thrown = FALSE, !.errors = Append(@, "parse")]
            ELSE handled

---------------------------------------------------------------------------
(* The state machine *)

NoFrame == TextFrame("")

Op(name, frame) == [op |-> name, frame |-> frame]

\* the bounds of the model hold in state r
Fits(r) ==
    /\ Len(Collect(r).sockets) <= MaxSockets
    /\ BagCardinality(r.timers) <= MaxTimers
    /\ Cardinality(r.intervals) <= MaxIntervals

\* the number of listener registrations the service holds
RECURSIVE Registrations(_, _)
Registrations(l, names) ==
    IF names = {} THEN 0
    ELSE LET e == CHOOSE x \in names : TRUE
         IN Len(l[e]) + Registrations(l, names \ {e})

\* the task ends in state r
Commit(r, op) ==
    /\ websocket' = Collect(r).websocket
    /\ reconnectAttempts' = r.reconnectAttempts
    /\ isConnecting' = r.isConnecting
    /\ heartbeatInterval' = r.heartbeatInterval
    /\ listeners' = r.listeners
    /\ sockets' = Collect(r).sockets
    /\ timers' = r.timers
    /\ intervals' = r.intervals
    /\ sent' = r.sent
    /\ calls' = r.calls
    /\ dispatched' = r.dispatched
    /\ errors' = r.errors
    /\ scheduled' = r.scheduled
    /\ thrown' = r.thrown
    /\ schedSinceOpen' = r.schedSinceOpen
    /\ unansweredPings' =
          IF r.websocket # NULL /\ r.sockets[r.websocket].readyState = "OPEN"
          THEN r.unansweredPings
          ELSE 0
    /\ uiStopped' = CASE op.op = "disconnect" -> TRUE
                       [] op.op = "connect" -> FALSE
                       [] OTHER -> uiStopped
    /\ lastOp' = op
    /\ UNCHANGED << serverVars, boardVars, inboxVars >>

\* the state after the constructor
Init ==
    /\ websocket = NULL
    /\ reconnectAttempts = 0
    /\ isConnecting = FALSE
    /\ heartbeatInterval = NULL
    /\ listeners = [e \in EventNames |-> <<>>]
    /\ sockets = <<>>
    /\ timers = EmptyBag
    /\ intervals = {}
    /\ sent = <<>>
    /\ calls = <<>>
    /\ dispatched = <<>>
    /\ errors = <<>>
    /\ scheduled = <<>>
    /\ thrown = FALSE
    /\ schedSinceOpen = 0
    /\ unansweredPings = 0
    /\ uiStopped = FALSE
    /\ lastOp = Op("init", NoFrame)
    /\ registry = [u \in Users |-> <<>>]
    /\ conns = [h \in Handles |-> NewConn]
    /\ lock = NULL
    /\ store = <<>>
    /\ net = [u \in Users |-> {}]
    /\ lastPublish = NoPublish
    /\ issues = <<>>
    /\ stats = [total |-> 0, open |-> 0, inProgress |-> 0, closed |-> 0]
    /\ boardOp = [op |-> "init", fetched |-> FALSE]
    /\ notifications = <<>>
    /\ unreadCount = 0
    /\ inbox = [id \in 1..MaxNotifications |-> "absent"]
    /\ inboxOp = [op |-> "init", thrown |-> FALSE]

\* the UI calls connect(token)
ConnectCall ==
    \E token \in Tokens :
        LET r == connect(Begin, token) IN
        /\ Fits(r)
        /\ Commit(r, Op("connect", NoFrame))

\* the UI calls disconnect()
DisconnectCall ==
    Commit(disconnect(Begin), Op("disconnect", NoFrame))

\* the open event of socket s
SocketOpen ==
    \E s \in 1..Len(sockets) :
        LET r == onopen([Begin EXCEPT !.sockets[s].readyState = "OPEN",
                                      !.sockets[s].wasOpen = TRUE], s) IN
        /\ sockets[s].readyState = "CONNECTING"
        /\ Fits(r)
        /\ Commit(r, Op("open", NoFrame))

\* the close event of socket s, with no error event before it
SocketClose ==
    \E s \in 1..Len(sockets) : \E code \in ClosableWith(s) :
        LET r == [onclose([Begin EXCEPT !.sockets[s].readyState = "CLOSED"], s, code)
                     EXCEPT !.sockets[s] = ClosedSocket] IN
        /\ Fits(r)
        /\ Commit(r, Op("close", NoFrame))

\* the connection of socket s fails: its error event and then its close event,
\* fired by one task
SocketFail ==
    \E s \in 1..Len(sockets) :
        LET r == [onclose(onerror([Begin EXCEPT !.sockets[s].readyState = "CLOSED"], s),
                          s, AbnormalClosure)
                     EXCEPT !.sockets[s] = ClosedSocket] IN
        /\ sockets[s].readyState # "CLOSED"
        /\ Fits(r)
        /\ Commit(r, Op("fail", NoFrame))

\* a reconnect timer set by scheduleReconnect fires
TimerFire ==
    \E token \in BagToSet(timers) :
        LET r == connect([Begin EXCEPT !.timers = @ (-) SetToBag({token})], token) IN
        /\ Fits(r)
        /\ Commit(r, Op("timer", NoFrame))

\* an interval timer set by startHeartbeat fires
HeartbeatTick ==
    \E i \in intervals :
        LET r == heartbeatTick(Begin) IN
        Commit([r EXCEPT !.unansweredPings =
                    IF i = heartbeatInterval /\ r.sent # <<>> /\ @ <= PongTimeoutTicks
                    THEN @ + 1 ELSE @],
               Op("tick", NoFrame))

\* socket s receives a frame
SocketMessage ==
    \E s \in 1..Len(sockets) : \E frame \in Frames : \E granted \in BOOLEAN :
        LET r == onmessage(Begin, s, frame, granted) IN
        /\ sockets[s].readyState = "OPEN"
        /\ Commit([r EXCEPT !.unansweredPings =
                      IF frame = PongFrame /\ s = websocket THEN 0 ELSE @],
                  Op("message", frame))

\* a component registers a listener
AddListenerCall ==
    \E e \in EventNames : \E cb \in Callbacks :
        /\ Registrations(listeners, EventNames) < MaxRegistrations
        /\ Commit(addEventListener(Begin, e, cb), Op("addEventListener", NoFrame))

\* a component removes a listener
RemoveListenerCall ==
    \E e \in EventNames : \E cb \in Callbacks :
        Commit(removeEventListener(Begin, e, cb),
               Op("removeEventListener", NoFrame))

\* the connection lifecycle, with no listener registered
Next ==
    \/ ConnectCall
    \/ DisconnectCall
    \/ SocketOpen
    \/ SocketClose
    \/ SocketFail
    \/ TimerFire
    \/ HeartbeatTick

Spec == Init /\ [][Next]_vars

\* the listener bus and the frames received, on one connection
NextBus ==
    \/ ConnectCall
    \/ SocketOpen
    \/ HeartbeatTick
    \/ SocketMessage
    \/ AddListenerCall
    \/ RemoveListenerCall

SpecBus == Init /\ [][NextBus]_vars

\* the handler a hook registers for `event` when its component mounts: a
\* closure that hands the data to the component's callback
HookMount(event) ==
    /\ IndexOf(listeners[event], "cbReturns") = 0
    /\ Registrations(listeners, EventNames) < MaxRegistrations
    /\ Commit(addEventListener(Begin, event, "cbReturns"), Op("mount", NoFrame))

\* the cleanup of the hook's effect when its component unmounts
HookUnmount(event) ==
    /\ IndexOf(listeners[event], "cbReturns") > 0
    /\ Commit(removeEventListener(Begin, event, "cbReturns"), Op("unmount", NoFrame))

\* useIssueAssignmentNotifications, used by the App component
AssignmentHookMount == HookMount("issue_assigned")
AssignmentHookUnmount == HookUnmount("issue_assigned")

\* useKanbanUpdates
KanbanHookMount == HookMount("kanban_update")
KanbanHookUnmount == HookUnmount("kanban_update")

\* the connection lifecycle while components mount and unmount
NextLife ==
    \/ ConnectCall
    \/ DisconnectCall
    \/ SocketOpen
    \/ SocketClose
    \/ SocketFail
    \/ TimerFire
    \/ HeartbeatTick
    \/ AssignmentHookMount
    \/ AssignmentHookUnmount
    \/ KanbanHookMount
    \/ KanbanHookUnmount

SpecLife == Init /\ [][NextLife]_vars

---------------------------------------------------------------------------
(* The server: ConnectionRegistry and EventPublisher *)

\* AuthCheck(credential) -> UserIdentity | AuthError
AuthCheck(cred) ==
    CASE cred = "tokU1" -> "u1"
      [] cred = "tokU2" -> "u2"
      [] OTHER -> AuthError

\* the handshake that accepts whatever credential the client presents
handshakeTrustsClient(c, cred) ==
    [c EXCEPT !.phase = "authed", !.cred = cred,
              !.user = IF AuthCheck(cred) = AuthError THEN "u1" ELSE AuthCheck(cred)]

\* the handshake of a connection attempt: the credential is authenticated
\* first; a failing credential closes the attempt at once
handshake(c, cred) ==
    IF AuthCheck(cred) = AuthError
    THEN [c EXCEPT !.phase = "rejected", !.cred = cred]
    ELSE [c EXCEPT !.phase = "authed", !.cred = cred, !.user = AuthCheck(cred)]

\* the handles of a sequence
Range(handles) == {handles[i] : i \in 1..Len(handles)}

\* register that replaces the handles the user had
registerEvicts(handles, handle) == << handle >>

\* register(userId, connectionHandle) on the user's handles: the handle is
\* added, a handle that is already there stays once
register(handles, handle) ==
    IF handle \in Range(handles) THEN handles ELSE Append(handles, handle)

\* unregister(userId, connectionHandle) on the user's handles
unregister(handles, handle) ==
    SelectSeq(handles, LAMBDA x : x # handle)

\* connectionsFor(userId): a copy of the user's handles
connectionsFor(reg, user) == reg[user]

\* the registry lock that every task gets at once
CanAcquireAlways(l) == TRUE

\* the exclusion around register / unregister / connectionsFor
CanAcquire(l) == l = NULL

\* the outcome of a publish so far
Outcome(id, user, handles) ==
    [id |-> id, user |-> user, handles |-> handles, received |-> {},
     failed |-> {}, count |-> 0, raised |-> FALSE]

\* the send loop that lets the first failing send end the publish
RECURSIVE PushEachAborting(_, _, _)
PushEachAborting(out, cs, i) ==
    IF i > Len(out.handles) THEN out
    ELSE IF cs[out.handles[i]].broken
    THEN [out EXCEPT !.failed = @ \cup {out.handles[i]}, !.raised = TRUE]
    ELSE PushEachAborting([out EXCEPT !.received = @ \cup {out.handles[i]},
                                      !.count = @ + 1], cs, i + 1)

\* the send loop of publish: a send to a broken handle throws, the failure is
\* caught and logged and the loop goes on
RECURSIVE PushEach(_, _, _)
PushEach(out, cs, i) ==
    IF i > Len(out.handles) THEN out
    ELSE IF cs[out.handles[i]].broken
    THEN PushEach([out EXCEPT !.failed = @ \cup {out.handles[i]}], cs, i + 1)
    ELSE PushEach([out EXCEPT !.received = @ \cup {out.handles[i]},
                              !.count = @ + 1], cs, i + 1)

\* publish that records the event only when a push succeeded
publishStoresDelivered(reg, st, cs, user) ==
    LET out == PushEach(Outcome(Len(st) + 1, user, connectionsFor(reg, user)), cs, 1)
    IN [store |-> IF out.count > 0 THEN Append(st, user) ELSE st, out |-> out]

\* publish with the aborting send loop
publishAborting(reg, st, cs, user) ==
    [store |-> Append(st, user),
     out |-> PushEachAborting(Outcome(Len(st) + 1, user, connectionsFor(reg, user)), cs, 1)]

\* publish(event) for an event whose target is `user`: the event is persisted,
\* then pushed to each handle of the user; the result is the store and the
\* outcome, whose count is returned
publish(reg, st, cs, user) ==
    [store |-> Append(st, user),
     out |-> PushEach(Outcome(Len(st) + 1, user, connectionsFor(reg, user)), cs, 1)]

\* the ids of the notifications a later fetch returns to `user`
fetch(st, user) == {id \in 1..Len(st) : st[id] = user}

\* a server task ends: the client is not involved
Server(ps) ==
    /\ lastPublish' = ps
    /\ UNCHANGED << clientVars, boardVars, inboxVars >>

\* a client opens connection h with a credential
Handshake ==
    \E h \in Handles : \E cred \in Credentials :
        /\ conns[h].phase = "none"
        /\ \A g \in 1..(h - 1) : conns[g].phase # "none"
        /\ conns' = [conns EXCEPT ![h] = handshake(@, cred)]
        /\ UNCHANGED << registry, lock, store, net >>
        /\ Server(NoPublish)

\* the task of connection h takes the lock and reads its user's handles, to
\* register h
RegisterRead ==
    \E h \in Handles :
        /\ conns[h].phase \in {"authed", "live"}
        /\ CanAcquire(lock)
        /\ lock' = h
        /\ conns' = [conns EXCEPT ![h].snap = registry[conns[h].user],
                                  ![h].phase = "registering"]
        /\ UNCHANGED << registry, store, net >>
        /\ Server(NoPublish)

\* the task of connection h writes the handles with h registered and releases
RegisterWrite ==
    \E h \in Handles :
        /\ conns[h].phase = "registering"
        /\ registry' = [registry EXCEPT ![conns[h].user] = register(conns[h].snap, h)]
        /\ net' = [net EXCEPT ![conns[h].user] = @ \cup {h}]
        /\ lock' = IF lock = h THEN NULL ELSE lock
        /\ conns' = [conns EXCEPT ![h].snap = <<>>, ![h].phase = "live"]
        /\ UNCHANGED store
        /\ Server(NoPublish)

\* the transport of a live connection dies: a send on it throws from now on
TransportDies ==
    \E h \in Handles :
        /\ conns[h].phase = "live"
        /\ ~conns[h].broken
        /\ conns' = [conns EXCEPT ![h].broken = TRUE]
        /\ UNCHANGED << registry, lock, store, net >>
        /\ Server(NoPublish)

\* the task of connection h (closing, or closed already) takes the lock and
\* reads its user's handles, to unregister h
UnregisterRead ==
    \E h \in Handles :
        /\ conns[h].phase \in {"live", "closed"}
        /\ CanAcquire(lock)
        /\ lock' = h
        /\ conns' = [conns EXCEPT ![h].snap = registry[conns[h].user],
                                  ![h].phase = "unregistering"]
        /\ UNCHANGED << registry, store, net >>
        /\ Server(NoPublish)

\* the task of connection h writes the handles without h and releases
UnregisterWrite ==
    \E h \in Handles :
        /\ conns[h].phase = "unregistering"
        /\ registry' = [registry EXCEPT ![conns[h].user] = unregister(conns[h].snap, h)]
        /\ net' = [net EXCEPT ![conns[h].user] = @ \ {h}]
        /\ lock' = IF lock = h THEN NULL ELSE lock
        /\ conns' = [conns EXCEPT ![h].snap = <<>>, ![h].phase = "closed",
                                  ![h].broken = TRUE]
        /\ UNCHANGED store
        /\ Server(NoPublish)

\* an issue mutation publishes an event for a user
Publish ==
    \E user \in Users :
        LET p == publish(registry, store, conns, user) IN
        /\ Len(store) < MaxEvents
        /\ CanAcquire(lock)
        /\ store' = p.store
        /\ UNCHANGED << registry, conns, lock, net >>
        /\ Server(p.out)

NextServer ==
    \/ Handshake
    \/ RegisterRead
    \/ RegisterWrite
    \/ TransportDies
    \/ UnregisterRead
    \/ UnregisterWrite
    \/ Publish

SpecServer == Init /\ [][NextServer]_vars

---------------------------------------------------------------------------
(* Properties of the server (checked under SpecServer) *)

\* C15: whatever the interleaving of the register and unregister operations of
\* the connection tasks, the handles connectionsFor(user) returns are exactly
\* the handles registered and not unregistered since, each once.
C15_RegistryIsNetSet ==
    \A u \in Users :
        /\ Range(connectionsFor(registry, u)) = net[u]
        /\ Len(connectionsFor(registry, u)) = Cardinality(net[u])

\* C15 witness: three connections of one user registered, the second was
\* unregistered, the first and the third remain
C15_Witness ==
    /\ lock = NULL
    /\ \E u \in Users :
          /\ registry[u] = << 1, 3 >>
          /\ conns[2].user = u
          /\ conns[2].phase = "closed"

\* C16: publish returns the number of handles the send succeeded on and never
\* raises: every handle of the target user whose send does not throw receives
\* the message, and the count is the number of handles minus the failing ones.
C16_PublishCountsSuccesses ==
    lastPublish.id # 0 =>
        /\ ~lastPublish.raised
        /\ lastPublish.failed = {h \in Range(lastPublish.handles) : conns[h].broken}
        /\ lastPublish.received = Range(lastPublish.handles) \ lastPublish.failed
        /\ lastPublish.count = Len(lastPublish.handles) - Cardinality(lastPublish.failed)

\* C16 witness: a publish to a user with three connections, one of them
\* failing, reached the other two and returned 2
C16_Witness ==
    /\ lastPublish.id # 0
    /\ Len(lastPublish.handles) = 3
    /\ Cardinality(lastPublish.failed) = 1
    /\ Cardinality(lastPublish.received) = 2
    /\ lastPublish.count = 2

\* C17: every published event is in the durable store, whatever the push did:
\* the event just published is returned by a fetch of its target user, and
\* every event published so far still is in the store.
C17_PublishedIsStored ==
    lastPublish.id # 0 =>
        /\ lastPublish.id = Len(store)
        /\ lastPublish.id \in fetch(store, lastPublish.user)

\* C17 witness: a publish to a user with no connection returned 0 and the
\* notification is fetched
C17_Witness ==
    /\ lastPublish.id # 0
    /\ lastPublish.handles = <<>>
    /\ lastPublish.count = 0
    /\ lastPublish.id \in fetch(store, lastPublish.user)

\* C18: every handle in the registry belongs to a connection whose credential
\* was authenticated, and is registered under the authenticated user; an
\* attempt with a failing credential is rejected, is in no user's handles and
\* receives no published event.
C18_RegisteredAreAuthenticated ==
    /\ \A u \in Users : \A h \in Range(registry[u]) : AuthCheck(conns[h].cred) = u
    /\ \A h \in Handles :
          (conns[h].phase # "none" /\ AuthCheck(conns[h].cred) = AuthError) =>
              /\ conns[h].phase = "rejected"
              /\ \A u \in Users : h \notin Range(registry[u]) /\ h \notin net[u]
              /\ h \notin lastPublish.received

\* C18 witness: one attempt was rejected, another is registered, and an event
\* was pushed to the registered one
C18_Witness ==
    /\ \E h \in Handles : conns[h].phase = "rejected"
    /\ lastPublish.count > 0

---------------------------------------------------------------------------
(* The Dashboard component: the issues of the board and the stats cards *)

IssueIds == 1..MaxIssues
Statuses == {"OPEN", "IN_PROGRESS", "CLOSED"}
Issue == [id : IssueIds, status : Statuses]

\* the data of a kanban_update event
KanbanEvents == [issue : Issue, action : {"created", "updated", "deleted"}]

\* prevIssues.findIndex(i => i.id === id): the first index, 0 for -1
FindIndex(list, id) ==
    IF \E i \in 1..Len(list) : list[i].id = id
    THEN CHOOSE i \in 1..Len(list) :
            /\ list[i].id = id
            /\ \A j \in 1..(i - 1) : list[j].id # id
    ELSE 0

\* the board patch that prepends every issue that was not deleted
handleKanbanUpdatePrepends(prevIssues, data) ==
    IF data.action = "deleted"
    THEN SelectSeq(prevIssues, LAMBDA i : i.id # data.issue.id)
    ELSE << data.issue >> \o prevIssues

\* the updater handleKanbanUpdate passes to setIssues
handleKanbanUpdate(prevIssues, data) ==
    LET existingIndex == FindIndex(prevIssues, data.issue.id) IN
    IF data.action = "deleted"
    THEN SelectSeq(prevIssues, LAMBDA i : i.id # data.issue.id)
    ELSE IF existingIndex > 0
    THEN [i \in 1..Len(prevIssues) |->
            IF prevIssues[i].id = data.issue.id THEN data.issue ELSE prevIssues[i]]
    ELSE << data.issue >> \o prevIssues

\* response.issues.filter(issue => issue.status === status).length
CountStatus(list, status) ==
    Cardinality({i \in 1..Len(list) : list[i].status = status})

\* the stats fetchIssues computes from the response
StatsOf(list) ==
    [total |-> Len(list), open |-> CountStatus(list, "OPEN"),
     inProgress |-> CountStatus(list, "IN_PROGRESS"), closed |-> CountStatus(list, "CLOSED")]

\* the ids of a list are pairwise different
UniqueIds(list) ==
    \A i, j \in 1..Len(list) : list[i].id = list[j].id => i = j

\* what GET /issues can answer: the server's issues, each id once
IssueLists ==
    UNION {{l \in [1..n -> Issue] : UniqueIds(l)} : n \in 0..MaxIssues}

\* a task of the Dashboard ends: nothing else is involved
Board(op) ==
    /\ boardOp' = [op |-> op, fetched |-> boardOp.fetched \/ op = "fetch"]
    /\ UNCHANGED << clientVars, serverVars, inboxVars >>

\* fetchIssues: the response arrives, the issues and the stats are set
FetchIssues ==
    \E response \in IssueLists :
        /\ issues' = response
        /\ stats' = StatsOf(response)
        /\ Board("fetch")

\* fetchIssues: the request fails, a toast is shown
FetchIssuesFails ==
    /\ UNCHANGED << issues, stats >>
    /\ Board("fetchFailed")

\* the kanban_update listener of the Dashboard runs
KanbanUpdate ==
    \E data \in KanbanEvents :
        /\ issues' = handleKanbanUpdate(issues, data)
        /\ UNCHANGED stats
        /\ Board("kanban_update")

NextBoard ==
    \/ FetchIssues
    \/ FetchIssuesFails
    \/ KanbanUpdate

SpecBoard == Init /\ [][NextBoard]_vars

---------------------------------------------------------------------------
(* The NotificationService: the local notification list and the unread count *)

NotifIds == 1..MaxNotifications

\* GET /notifications: the user's notifications, newest first
NotificationsResponse(box) ==
    LET present == {id \in NotifIds : box[id] # "absent"}
        n == Cardinality(present)
        \* the k-th newest id
        Nth(k) == CHOOSE id \in present : Cardinality({x \in present : x > id}) = k - 1
    IN [notifications |-> [k \in 1..n |-> [id |-> Nth(k), is_read |-> box[Nth(k)] = "read"]],
        unread_count |-> Cardinality({id \in NotifIds : box[id] = "unread"})]

\* the local state of the service
Inbox == [notifications |-> notifications, unreadCount |-> unreadCount, thrown |-> FALSE]

\* fetchNotifications(1, size): the first page replaces the list
fetchNotifications(r, response) ==
    [r EXCEPT !.notifications = response.notifications,
              !.unreadCount = response.unread_count]

\* Math.max(0, n)
Max0(n) == IF n < 0 THEN 0 ELSE n

\* markAsRead(notificationId); ok: the PUT request succeeded.  A failed request
\* is logged and rethrown before the local state is touched
markAsRead(r, notificationId, ok) ==
    IF ~ok THEN [r EXCEPT !.thrown = TRUE]
    ELSE [r EXCEPT
            !.notifications = [i \in 1..Len(@) |->
                IF @[i].id = notificationId THEN [@[i] EXCEPT !.is_read = TRUE] ELSE @[i]],
            !.unreadCount = Max0(@ - 1)]

\* a task of the NotificationService ends in local state r
InboxCommit(r, op) ==
    /\ notifications' = r.notifications
    /\ unreadCount' = r.unreadCount
    /\ inboxOp' = [op |-> op, thrown |-> r.thrown]
    /\ UNCHANGED << clientVars, serverVars, boardVars >>

\* the server creates the next notification for the user
NotificationCreated ==
    \E id \in NotifIds :
        /\ inbox[id] = "absent"
        /\ \A older \in 1..(id - 1) : inbox[older] # "absent"
        /\ inbox' = [inbox EXCEPT ![id] = "unread"]
        /\ UNCHANGED << notifications, unreadCount, inboxOp >>
        /\ UNCHANGED << clientVars, serverVars, boardVars >>

\* the response of fetchNotifications arrives
FetchNotifications ==
    /\ UNCHANGED inbox
    /\ InboxCommit(fetchNotifications(Inbox, NotificationsResponse(inbox)), "fetch")

\* the PUT of markAsRead(id) is answered: the server marks a notification it
\* has as read, the request for one it does not have fails
MarkAsRead ==
    \E id \in NotifIds :
        LET ok == inbox[id] # "absent" IN
        /\ inbox' = IF ok THEN [inbox EXCEPT ![id] = "read"] ELSE inbox
        /\ InboxCommit(markAsRead(Inbox, id, ok), "markAsRead")

\* the PUT of markAsRead(id) fails on the way
MarkAsReadFails ==
    \E id \in NotifIds :
        /\ UNCHANGED inbox
        /\ InboxCommit(markAsRead(Inbox, id, FALSE), "markAsRead")

NextInbox ==
    \/ NotificationCreated
    \/ FetchNotifications
    \/ MarkAsRead
    \/ MarkAsReadFails

SpecInbox == Init /\ [][NextInbox]_vars

---------------------------------------------------------------------------
(* Properties of the Dashboard (checked under SpecBoard) *)

\* C28: the issues of the board have pairwise different ids, and applying a
\* kanban_update event a second time changes nothing: deleted removes the
\* issue, an id the board has is replaced in place, an id it does not have is
\* put in front.
C28_BoardPatchUniqueIdempotent ==
    /\ UniqueIds(issues)
    /\ \A data \in KanbanEvents :
          LET once == handleKanbanUpdate(issues, data) IN
          /\ handleKanbanUpdate(once, data) = once
          /\ UniqueIds(once)
          /\ (data.action = "deleted" =>
                once = SelectSeq(issues, LAMBDA i : i.id # data.issue.id))
          /\ (data.action # "deleted" /\ FindIndex(issues, data.issue.id) > 0 =>
                /\ Len(once) = Len(issues)
                /\ once[FindIndex(issues, data.issue.id)] = data.issue
                /\ \A i \in 1..Len(issues) :
                      i # FindIndex(issues, data.issue.id) => once[i] = issues[i])
          /\ (data.action # "deleted" /\ FindIndex(issues, data.issue.id) = 0 =>
                once = << data.issue >> \o issues)

\* C28 witness: kanban updates filled the board: the last one put issue 3 in
\* front of issues 2 and 1, whose statuses differ
C28_Witness ==
    /\ boardOp.op = "kanban_update"
    /\ Len(issues) = 3
    /\ issues[1].id = 3
    /\ issues[2].status # issues[3].status

\* C29: once the issues were fetched, the stats are those of the issues of the
\* board: the total is the number of issues and each status count is the
\* number of issues with that status.
C29_StatsMatchBoard ==
    boardOp.fetched => stats = StatsOf(issues)

---------------------------------------------------------------------------
(* Properties of the NotificationService (checked under SpecInbox) *)

\* C30: a successful markAsRead(id) of a notification that was marked already,
\* that is read already or that is not in the list leaves the list and
\* unreadCount as they are; unreadCount is never negative; a failed request
\* leaves both unchanged and rethrows.
C30_MarkAsReadIdempotent ==
    /\ unreadCount >= 0
    /\ \A id \in NotifIds :
          LET once == markAsRead(Inbox, id, TRUE)
              listedUnread == \E i \in 1..Len(notifications) :
                                 notifications[i].id = id /\ ~notifications[i].is_read
              failed == markAsRead(Inbox, id, FALSE)
          IN /\ markAsRead(once, id, TRUE) = once
             /\ (~listedUnread => once = Inbox)
             /\ failed.thrown
             /\ failed.notifications = notifications
             /\ failed.unreadCount = unreadCount

---------------------------------------------------------------------------
(* Properties of the connection lifecycle (checked under Spec) *)

\* the client is connecting: its current transport is being established
Connecting(r) == r.websocket # NULL /\ r.sockets[r.websocket].readyState = "CONNECTING"
\* the client is connected: its current transport is open
Connected(r) == r.websocket # NULL /\ r.sockets[r.websocket].readyState = "OPEN"

\* C1: once the UI has called disconnect(), and until it calls connect() again,
\* no transport is being opened: no socket is in CONNECTING state.  In
\* particular a reconnect timer that was pending when disconnect() was called
\* opens nothing when it fires.
C1_NoConnectingAfterDisconnect ==
    uiStopped => \A s \in 1..Len(sockets) : sockets[s].readyState # "CONNECTING"

\* C2: in every state where the client is connecting or connected, connect(token)
\* changes nothing: no socket is created and no field of the service changes.
C2_ConnectIsNoOpWhenBusy ==
    \A token \in Tokens :
        (Connecting(St) \/ Connected(St)) => Core(connect(Begin, token)) = Core(St)

\* the sockets whose close event is still to come, and the codes it can carry
Closable == {c \in (1..Len(sockets)) \X CloseCodes : c[2] \in ClosableWith(c[1])}

\* what the close handler of socket c[1] does in the current state, for code c[2]
AfterClose(c) == onclose([Begin EXCEPT !.sockets[c[1]].readyState = "CLOSED"], c[1], c[2])

\* C3: the k-th reconnect scheduled since the last open event (k = 1..5) is
\* scheduled with a delay of exactly 2000 * k ms.
C3_LinearBackoff ==
    scheduled # <<>> =>
        /\ schedSinceOpen \in 1..5
        /\ scheduled = << 2000 * schedSinceOpen >>

\* C3 witness: the fifth consecutive reconnect has just been scheduled, 10000 ms ahead
C3_Witness ==
    /\ lastOp.op \in {"close", "fail"}
    /\ schedSinceOpen = 5
    /\ scheduled = << 10000 >>

\* C4: without a successful open in between, at most 5 reconnects are scheduled;
\* while fewer than 5 were scheduled (and disconnect() was not called) an
\* abnormal close schedules the next one, and once 5 were scheduled a further
\* close, whatever its code, schedules nothing and adds no timer: the client
\* stays disconnected until connect() is called.
C4_GivesUpAfterFive ==
    /\ schedSinceOpen <= 5
    /\ \A c \in Closable :
          /\ (schedSinceOpen = 5 =>
                /\ AfterClose(c).scheduled = <<>>
                /\ AfterClose(c).timers = timers)
          /\ (reconnectAttempts < 5 /\ c[2] # 1000 =>
                /\ Len(AfterClose(c).scheduled) = 1
                /\ BagCardinality(AfterClose(c).timers) = BagCardinality(timers) + 1)

\* C4 witness: no attempt ever opened, the fifth retry has just failed, nothing
\* was scheduled for it, no timer is pending and no socket is alive
C4_Witness ==
    /\ lastOp.op = "fail"
    /\ ~uiStopped
    /\ schedSinceOpen = 5
    /\ reconnectAttempts = 5
    /\ scheduled = <<>>
    /\ timers = EmptyBag
    /\ intervals = {}
    /\ \A s \in 1..Len(sockets) : sockets[s].readyState = "CLOSED"

\* C5: right after an open event the client is connected (its current transport
\* is open), the attempt counter is 0, a heartbeat timer is running and its
\* tick sends a ping; and the first reconnect scheduled after an open event is
\* attempt 1, 2000 ms ahead.
C5_OpenResets ==
    /\ (lastOp.op = "open" =>
          /\ Connected(St)
          /\ ~isConnecting
          /\ reconnectAttempts = 0
          /\ heartbeatInterval # NULL /\ heartbeatInterval \in intervals
          /\ heartbeatTick(Begin).sent = << "ping" >>)
    /\ (scheduled # <<>> /\ schedSinceOpen = 1 => scheduled = << 2000 >>)

\* C6: right after disconnect() the attempt counter is at its maximum, the
\* service holds no transport and no heartbeat timer, no ping can be sent, the
\* transport it held is closing with code 1000, nothing was thrown; and calling
\* disconnect() again leaves every field as it is and throws nothing.
C6_DisconnectIdempotent ==
    lastOp.op = "disconnect" =>
        /\ reconnectAttempts = 5
        /\ websocket = NULL
        /\ heartbeatInterval = NULL
        /\ \A s \in 1..Len(sockets) :
              sockets[s].closeCode # NULL =>
                  sockets[s].closeCode = 1000 /\ sockets[s].readyState = "CLOSING"
        /\ heartbeatTick(Begin).sent = <<>>
        /\ ~thrown
        /\ Core(disconnect(Begin)) = Core(St)
        /\ ~disconnect(Begin).thrown

\* C6 witness: disconnect() was called on an open connection with a heartbeat
C6_Witness ==
    /\ lastOp.op = "disconnect"
    /\ \E s \in 1..Len(sockets) :
          /\ sockets[s].wasOpen
          /\ sockets[s].readyState = "CLOSING"
          /\ sockets[s].closeCode = 1000
    /\ heartbeatInterval = NULL

\* C19: a close event with the normal-closure code 1000 schedules no reconnect
\* and sets no timer, whatever the attempt counter is; a close event schedules
\* a reconnect exactly when its code is not 1000 and the counter is below 5.
C19_NormalCloseNeverReconnects ==
    \A c \in Closable :
        /\ (AfterClose(c).scheduled # <<>> <=> (c[2] # 1000 /\ reconnectAttempts < 5))
        /\ (c[2] = 1000 =>
              /\ AfterClose(c).timers = timers
              /\ AfterClose(c).reconnectAttempts = reconnectAttempts)

\* C19 witness: an open connection whose counter is 0 was closed by the server
\* with code 1000, disconnect() was not called, and nothing was scheduled
C19_Witness ==
    /\ lastOp.op = "close"
    /\ ~uiStopped
    /\ reconnectAttempts = 0
    /\ schedSinceOpen = 0
    /\ scheduled = <<>>
    /\ timers = EmptyBag

\* the sockets that are being established or are open: their handlers run
\* when their events arrive
LiveSockets == {s \in 1..Len(sockets) : sockets[s].readyState \in {"CONNECTING", "OPEN"}}

\* C22: at most one socket is CONNECTING or OPEN at any time.
C22_AtMostOneLiveSocket ==
    Cardinality(LiveSockets) <= 1

\* C23: exactly one heartbeat timer is active, the one the service holds, while
\* the current transport is open, and none is active otherwise.
C23_HeartbeatTracksConnection ==
    IF Connected(St)
    THEN heartbeatInterval # NULL /\ intervals = {heartbeatInterval}
    ELSE intervals = {}

\* C24: when the last call of the UI was disconnect(), a connect(token) starts
\* a connection attempt, also while the close event of the old socket is still
\* to come.
C24_ConnectAfterDisconnectStarts ==
    uiStopped =>
        \A token \in Tokens :
            LET r == connect(Begin, token) IN
            /\ Len(r.sockets) = Len(sockets) + 1
            /\ Connecting(r)

\* the client is idle: no socket is alive, no reconnect is pending and no
\* attempt is flagged as in progress
Idle ==
    /\ websocket = NULL
    /\ ~isConnecting
    /\ timers = EmptyBag
    /\ \A s \in 1..Len(sockets) : sockets[s].readyState = "CLOSED"

\* connect(token) called now, and the new socket failing before it opens
ConnectThenFail(token) ==
    LET r == connect(Begin, token) IN
    onclose(onerror([r EXCEPT !.sockets[r.websocket].readyState = "CLOSED"], r.websocket),
            r.websocket, AbnormalClosure)

\* C25: a connect() of an idle client, after disconnect() or after the retry
\* budget was used up, starts with a fresh budget: when that attempt fails
\* before it opens, reconnect attempt 1 is scheduled 2000 ms ahead.
C25_ExplicitConnectHasFreshBudget ==
    Idle =>
        \A token \in Tokens : ConnectThenFail(token).scheduled = << 2000 >>

\* C26: 0 <= reconnectAttempts <= 5 in every reachable state.
C26_AttemptsWithinBudget ==
    reconnectAttempts \in 0..5

\* C26 witness: the fifth reconnect was scheduled by the close event of one
\* socket while another socket of the client is still alive
C26_Witness ==
    /\ lastOp.op \in {"close", "fail"}
    /\ scheduled # <<>>
    /\ reconnectAttempts = 5
    /\ LiveSockets # {}

\* what each task of the connection lifecycle that can run now leaves behind:
\* connect, disconnect, the open, close and error events of the sockets, a
\* reconnect timer firing, a heartbeat tick
LifecycleResults ==
    {connect(Begin, token) : token \in Tokens}
    \cup {disconnect(Begin)}
    \cup {onopen([Begin EXCEPT !.sockets[s].readyState = "OPEN"], s) :
             s \in {x \in 1..Len(sockets) : sockets[x].readyState = "CONNECTING"}}
    \cup {AfterClose(c) : c \in Closable}
    \cup {onerror(Begin, s) : s \in {x \in 1..Len(sockets) : sockets[x].readyState # "CLOSED"}}
    \cup {connect([Begin EXCEPT !.timers = @ (-) SetToBag({token})], token) :
             token \in BagToSet(timers)}
    \cup {heartbeatTick(Begin)}

\* a notification of event type e
MatchingFrame(e) == JsonFrame(Message("notification", Data(e, TRUE)))

\* a notification of a subscribed type, received on any open socket, invokes
\* each callback registered for that type exactly once
InvokedOncePerMessage ==
    \A s \in 1..Len(sockets) : \A e \in {"issue_assigned", "kanban_update"} :
        sockets[s].readyState = "OPEN" =>
            LET after == onmessage(Begin, s, MatchingFrame(e), FALSE) IN
            \A i \in 1..Len(listeners[e]) :
                Cardinality({k \in 1..Len(after.calls) :
                                /\ after.calls[k].event = e
                                /\ after.calls[k].callback = listeners[e][i]}) = 1

\* C21 (checked under SpecLife): no task of the connection lifecycle (connect,
\* disconnect, open, close, error, reconnect timer, heartbeat tick) changes
\* the listeners of any event, and in every state, before and after a
\* reconnect, a matching message invokes each registered callback exactly once.
C21_LifecycleKeepsListeners ==
    /\ \A r \in LifecycleResults : r.listeners = listeners
    /\ InvokedOncePerMessage

\* C21 witness: a connection failed, its reconnect timer fired and the second
\* reconnect attempt is under way, with the listeners mounted before still
\* registered
C21_Witness ==
    /\ lastOp.op = "timer"
    /\ Connecting(St)
    /\ reconnectAttempts = 2
    /\ listeners["issue_assigned"] = << "cbReturns" >>
    /\ listeners["kanban_update"] = << "cbReturns" >>

---------------------------------------------------------------------------
(* Properties of the received frames and of the listener bus (checked under SpecBus) *)

\* the frames that carry no notification: the pong token, malformed JSON, and a
\* well-formed message of a type the client does not know
SilentFrames == {PongFrame, MalformedFrame, UnknownTypeFrame}

\* the frame is a structured notification message with a data object
IsNotification(frame) ==
    /\ frame.json
    /\ ~frame.value.isNull
    /\ frame.value.type = "notification"
    /\ frame.value.data.defined

\* C7: a pong token, a malformed frame or a message of unknown type, received
\* on an open socket, invokes no listener, dispatches nothing, sends nothing,
\* throws nothing out of the message handler and changes no field of the
\* service or of its sockets: the connection stays as it was.
C7_SilentFramesDropped ==
    /\ \A s \in 1..Len(sockets) : \A frame \in SilentFrames : \A granted \in BOOLEAN :
          sockets[s].readyState = "OPEN" =>
              LET after == onmessage(Begin, s, frame, granted) IN
              /\ after.calls = <<>>
              /\ after.dispatched = <<>>
              /\ after.sent = <<>>
              /\ ~after.thrown
              /\ Core(after) = Core(St)
    /\ (lastOp.op = "message" /\ lastOp.frame \in SilentFrames =>
          calls = <<>> /\ ~thrown /\ Connected(St))

\* C7 witness: a malformed frame was received while a listener was registered
\* for notifications; it was logged, no listener ran, the connection is open
C7_Witness ==
    /\ lastOp.op = "message"
    /\ lastOp.frame = MalformedFrame
    /\ listeners["notification"] # <<>>
    /\ errors = << "parse" >>
    /\ calls = <<>>
    /\ Connected(St)

\* the notifyListeners calls a notification with this data is claimed to cause:
\* the generic one and the one under its event type
BothDispatches(data) ==
    << [event |-> "notification", data |-> data],
       [event |-> data.event_type, data |-> data] >>

\* C8 as stated: every notification message, whatever its event type, is
\* dispatched under the generic name and under the name of its event type.
C8_EveryEventTypeDispatched ==
    lastOp.op = "message" /\ IsNotification(lastOp.frame) =>
        dispatched = BothDispatches(lastOp.frame.value.data)

\* C8 as amended: every notification message is dispatched under the generic
\* name; it is dispatched under the name of its event type as well exactly when
\* that type is issue_assigned or kanban_update.
C8_KnownSubtypesDispatched ==
    lastOp.op = "message" /\ IsNotification(lastOp.frame) =>
        LET data == lastOp.frame.value.data IN
        dispatched = IF data.event_type \in {"issue_assigned", "kanban_update"}
                     THEN BothDispatches(data)
                     ELSE << [event |-> "notification", data |-> data] >>

\* C8 witness: a kanban_update notification reached a listener registered
\* under kanban_update, after the generic dispatch
C8_Witness ==
    /\ lastOp.op = "message"
    /\ IsNotification(lastOp.frame)
    /\ lastOp.frame.value.data.event_type = "kanban_update"
    /\ Len(dispatched) = 2
    /\ \E i \in 1..Len(calls) : calls[i].event = "kanban_update"

\* C9: a ping token received from the server is answered with a pong, and no
\* error is logged for it.
C9_PingAnsweredWithPong ==
    lastOp.op = "message" /\ lastOp.frame = PingFrame =>
        sent = << "pong" >> /\ errors = <<>>

\* C10: notifyListeners(event, data) invokes every callback registered for the
\* event when it is called, once per registration and in registration order,
\* and throws nothing.
C10_EveryListenerInvokedOnce ==
    \A e \in EventNames :
        LET data == Data("issue_assigned", TRUE)
            after == notifyListeners(Begin, e, data)
        IN /\ after.calls = [i \in 1..Len(listeners[e]) |->
                                [event |-> e, callback |-> listeners[e][i], data |-> data]]
           /\ ~after.thrown

\* C14: a connection whose pings go unanswered for the heartbeat timeout is
\* declared dead and closed: the client is never connected with more pings of
\* its heartbeat timer unanswered than the timeout allows.
C14_UnansweredPingsCloseConnection ==
    Connected(St) => unansweredPings <= PongTimeoutTicks

---------------------------------------------------------------------------
(* Properties of the listener registry (checked under SpecBus) *)

\* the callbacks of a list other than `callback`, in their order
Others(callbacks, callback) ==
    SelectSeq(callbacks, LAMBDA c : c # callback)

\* the number of registrations of `callback` in a list
Occurrences(callbacks, callback) ==
    Cardinality({i \in 1..Len(callbacks) : callbacks[i] = callback})

\* C11: addEventListener(event, callback) appends the callback to the listeners
\* of the event and returns an unsubscribe handle: a function the caller can
\* invoke without an exception.
C11_AddReturnsUnsubscribeHandle ==
    lastOp.op = "addEventListener" =>
        \A e \in EventNames : \A cb \in Callbacks :
            LET added == addEventListener(Begin, e, cb)
                returned == addEventListenerReturns(Begin, e, cb)
            IN /\ added.listeners = [listeners EXCEPT ![e] = Append(@, cb)]
               /\ returned # Undefined
               /\ ~InvokeReturned(added, returned).thrown

\* C12: no callback is registered more than once for one event name.
C12_NoDuplicateRegistration ==
    \A e \in EventNames : \A cb \in Callbacks :
        Occurrences(listeners[e], cb) <= 1

C27_DispatchSurvivesRemoval ==
    \A e \in EventNames :
        LET after == notifyListeners(Begin, e, Data(e, TRUE)) IN
        \A cb \in Callbacks \ {"cbUnsubscribes"} :
            Cardinality({k \in 1..Len(after.calls) : after.calls[k].callback = cb})
                = Occurrences(listeners[e], cb)

====
